---- MODULE Spec2Model ----
(***************************************************************************)
(* A model of quantum_maze: the key state of PostQuantumCipher             *)
(* (core/cipher.py), the construction and serialisation of QuantumMaze     *)
(* (core/maze.py) and the search and path checks of QuantumNavigator       *)
(* (core/navigator.py).                                                    *)
(*                                                                         *)
(* Library primitives are modelled by their functional contract:           *)
(*   - SHA3-512 is a collision-free function (a digest is the term "hash   *)
(*     of its input", or, where bytes are needed, a deterministic mixing   *)
(*     function with a 64-byte result);                                    *)
(*   - ChaCha20Poly1305 is an ideal AEAD: decrypt returns the plaintext    *)
(*     iff key, nonce and associated data are those of the encrypt call    *)
(*     that produced the data, and raises InvalidTag otherwise;            *)
(*   - os.urandom and random.SystemRandom are nondeterministic choices.    *)
(* The argument checks of the library calls (key and nonce sizes, the      *)
(* KBKDFHMAC parameter list) are outside this model.                       *)
(***************************************************************************)
EXTENDS Integers, Sequences, FiniteSets

VARIABLES
    \* PostQuantumCipher
    current_key,            \* self._current_key
    previous_keys,          \* self._previous_keys, deque(maxlen=3), oldest first
    key_rotation_counter,   \* self._key_rotation_counter
    held,                   \* a ciphertext the caller keeps, with the plaintext and
                            \* the counter value of the encrypt call that made it
    last,                   \* the last call on the cipher and what it returned
    encRun,                 \* encrypt calls so far, while rotate_keys was never
                            \* called by the caller; NoRun afterwards
    \* QuantumMaze
    config,                 \* the SecurityConfig a maze was constructed from
    maze,                   \* QuantumMaze(config): the object, or the error raised
    regen,                  \* a second QuantumMaze(config) compared with the first
    restored,               \* QuantumMaze.deserialize(maze.serialize())
    \* QuantumNavigator.find_secure_path
    nav_maze,               \* self.maze
    heap,                   \* heap: the set of entries <<priority, pos, path>>
    visited,                \* visited
    pc,                     \* "idle", "search" (in the loop) or "done" (returned)
    result,                 \* what find_secure_path returned
    cand,                   \* the last path handed to _validate_full_path
    entropy_cache,          \* self._entropy_cache
    pushed,                 \* every entry pushed so far, in the order of the heappush calls
    turns,                  \* steps find_secure_path has taken: the entry and the loop turns
    \* the path checks applied to one path
    probe_path,
    probe_level,
    probe_out

cipherVars == <<current_key, previous_keys, key_rotation_counter, held, last, encRun>>

mazeVars == <<config, maze, regen, restored>>

navVars == <<nav_maze, heap, visited, pc, result, cand, entropy_cache, pushed, turns>>

probeVars == <<probe_path, probe_level, probe_out>>

vars == <<cipherVars, mazeVars, navVars, probeVars>>

(***************************************************************************)
(* Bounds of the model                                                     *)
(***************************************************************************)
MaxRotations == 1003    \* rotations the model follows
MaxHeldAge == 5         \* rotations a caller lets pass while holding a ciphertext
MaxEncRun == 1002       \* length of a run of encrypt calls on a fresh cipher

Plaintexts == {<<>>, <<42>>}
Nonces == {1}                 \* the value os.urandom(24) is drawn from
NoRun == -1

(***************************************************************************)
(* Bytes: a byte string is a sequence of segments [len, val]; a slice that *)
(* falls on segment boundaries yields the segment's value, any other slice *)
(* yields bytes that equal no value (Garbage).                             *)
(***************************************************************************)
Garbage == [kind |-> "garbage"]

\* None of Python, and a variable not yet set
None == [kind |-> "none"]

Seg(n, v) == [len |-> n, val |-> v]

RECURSIVE BytesLen(_)
BytesLen(b) == IF b = <<>> THEN 0 ELSE b[1].len + BytesLen(Tail(b))

\* b[:n]
Prefix(b, n) == IF Len(b) >= 1 /\ b[1].len = n THEN b[1].val ELSE Garbage

\* b[-n:]
Suffix(b, n) == IF Len(b) >= 1 /\ b[Len(b)].len = n THEN b[Len(b)].val ELSE Garbage

\* b[m:-n]
Between(b, m, n) ==
    IF Len(b) = 3 /\ b[1].len = m /\ b[3].len = n THEN b[2].val ELSE Garbage

(***************************************************************************)
(* Library primitives                                                      *)
(***************************************************************************)
NonceLen == 24
FingerprintLen == 48
MinCiphertextLen == 72
PolyTagLen == 16
DigestLen == 64
DerivedKeyLen == 96
RotationThreshold == 1000
HistoryMaxLen == 3

\* sha3_512(key).digest(): collision-free, so the keys of one cipher form a chain
\* root, H(root), H(H(root)), ... and a key is named by its place in the chain.
Sha3_512(key) == [chain |-> key.chain + 1, len |-> DigestLen]

\* ChaCha20Poly1305(key).encrypt(nonce, plaintext, aad): ciphertext and tag.
ChaChaEncrypt(key, nonce, plaintext, aad) ==
    Seg(Len(plaintext) + PolyTagLen,
        [kind |-> "aead", key |-> key, nonce |-> nonce, pt |-> plaintext, aad |-> aad])

\* cryptography.exceptions.InvalidTag raised with a message
InvalidTagMsg(msg) == [tag |-> "InvalidTag", msg |-> msg]

\* InvalidTag as the library raises it, with no message
InvalidTag == InvalidTagMsg("")
Ok(plaintext) == [tag |-> "ok", pt |-> plaintext]

\* ChaCha20Poly1305(key).decrypt(nonce, data, aad)
ChaChaDecrypt(key, nonce, data, aad) ==
    IF data.kind = "aead"
    THEN IF data.key = key /\ data.nonce = nonce /\ data.aad = aad
         THEN Ok(data.pt) ELSE InvalidTag
    ELSE InvalidTag

(***************************************************************************)
(* Bytes of the maze: plain sequences of numbers 0..255                    *)
(***************************************************************************)
\* b[m:n] of Python, m and n counted from 0
Slice(b, m, n) == IF n <= m THEN <<>> ELSE SubSeq(b, m + 1, IF n > Len(b) THEN Len(b) ELSE n)

\* int.from_bytes(b, 'big') % m
RECURSIVE IntFromBytesModFrom(_, _, _, _)
IntFromBytesModFrom(b, m, i, acc) ==
    IF acc < 0 \/ i > Len(b) THEN acc ELSE IntFromBytesModFrom(b, m, i + 1, (acc * 256 + b[i]) % m)

IntFromBytesMod(b, m) == IntFromBytesModFrom(b, m, 1, 0)

\* n.to_bytes(4, 'big')
ToBytes4(n) == <<(n \div 16777216) % 256, (n \div 65536) % 256, (n \div 256) % 256, n % 256>>

\* int.from_bytes(b, 'big') of four bytes
FromBytes4(b) == ((b[1] * 256 + b[2]) * 256 + b[3]) * 256 + b[4]

\* One uint64 cell as numpy stores it (little-endian); cell values stay below 2^31.
CellBytes(v) ==
    <<v % 256, (v \div 256) % 256, (v \div 65536) % 256, (v \div 16777216) % 256, 0, 0, 0, 0>>

CellFromBytes(b) == ((b[4] * 256 + b[3]) * 256 + b[2]) * 256 + b[1]

\* a XOR b on naturals
RECURSIVE BitXor(_, _)
BitXor(a, b) ==
    IF a = 0 THEN b ELSE IF b = 0 THEN a
    ELSE (((a % 2) + (b % 2)) % 2) + 2 * BitXor(a \div 2, b \div 2)

RECURSIVE Power(_, _)
Power(b, n) == IF n = 0 THEN 1 ELSE b * Power(b, n - 1)

\* The digest of a byte string. SHA3-512 itself is not computed: the digest is a
\* deterministic mixing of all input bytes, 64 bytes long.
RECURSIVE MixBytes(_, _, _)
MixBytes(b, i, acc) ==
    IF acc < 0 \/ i > Len(b) THEN acc ELSE MixBytes(b, i + 1, (acc * 31 + b[i] + 1) % 65521)

RECURSIVE DigestFrom(_, _)
DigestFrom(mix, i) ==
    IF i > DigestLen THEN <<>>
    ELSE <<(mix * (2 * i + 1) + (mix \div 256) * i + i * i + 7) % 256>> \o DigestFrom(mix, i + 1)

Sha3_512_bytes(b) == DigestFrom(MixBytes(b, 1, Len(b)), 1)

\* str.encode('utf-8') of the strings the model uses
Utf8(str) ==
    CASE str = "low" -> <<108, 111, 119>>
      [] str = "medium" -> <<109, 101, 100, 105, 117, 109>>
      [] str = "high" -> <<104, 105, 103, 104>>
      [] str = "ultra" -> <<117, 108, 116, 114, 97>>
      [] str = "N" -> <<78>>
      [] str = "S" -> <<83>>
      [] str = "E" -> <<69>>
      [] str = "W" -> <<87>>
      [] str = "U" -> <<85>>
      [] str = "D" -> <<68>>
      [] str = "X" -> <<88>>
      [] str = "NS" -> <<78, 83>>
      [] str = "" -> <<>>

KnownStrings == {"low", "medium", "high", "ultra"}

\* bytes.decode('utf-8'): the string with these bytes, "?" for bytes that spell
\* none of the strings the model uses
Utf8Decode(b) ==
    IF \E str \in KnownStrings : Utf8(str) = b
    THEN CHOOSE str \in KnownStrings : Utf8(str) = b
    ELSE "?"

\* str.strip('\x00'), on the bytes of the string
RECURSIVE StripNul(_)
StripNul(b) ==
    IF b = <<>> THEN b
    ELSE IF b[1] = 0 THEN StripNul(Tail(b))
    ELSE IF b[Len(b)] = 0 THEN StripNul(SubSeq(b, 1, Len(b) - 1))
    ELSE b

\* f"{x}:{y}:{z}".encode(), for one-digit coordinates
CoordBytes(x, y, z) == <<48 + x, 58, 48 + y, 58, 48 + z>>

(***************************************************************************)
(* MAZE_CONFIG (maze_runner)                                               *)
(***************************************************************************)
MinSize == 2
MaxSize == 3
ExitDivisor == 2
BaseModulus == 256
SecurityLevels ==
    [low |-> [dimension |-> 4], medium |-> [dimension |-> 6], high |-> [dimension |-> 7]]

(***************************************************************************)
(* QuantumMaze                                                             *)
(***************************************************************************)
MinSeedLen == 32

Err(e) == [kind |-> "error", error |-> e]

Coords(size) == 0..(size - 1)
Cells(size) == Coords(size) \X Coords(size) \X Coords(size)

\* The place of cell (x, y, z) in the row-major order of the array, from 0
CellIndex(size, pos) == (pos[1] * size + pos[2]) * size + pos[3]

_validate_size(size) == IF MinSize <= size /\ size <= MaxSize THEN size ELSE Err("QuantumMazeError")

_validate_security_level(level) ==
    IF level \in DOMAIN SecurityLevels THEN level ELSE Err("QuantumMazeError")

\* self.lwe_params; MAZE_CONFIG['security_levels'][level] raises KeyError
\* for a level that is no key of it
_get_lwe_params(level) ==
    IF level \in DOMAIN SecurityLevels
    THEN [kind |-> "params", modulus |-> BaseModulus, dimension |-> SecurityLevels[level].dimension]
    ELSE Err("KeyError")

\* _process_seed, for a seed that is not None (SecurityConfig.__post_init__
\* replaces a None seed by 64 random bytes)
_process_seed(seed) ==
    IF Len(seed) < MinSeedLen THEN Err("QuantumMazeError") ELSE [kind |-> "seed", bytes |-> Sha3_512_bytes(seed)]

\* The i-th draw (from 0) of np.random.Generator(PCG64(int.from_bytes(seed, 'big')))
\* .integers(0, modulus): a deterministic function of the seed and i.
Pcg64Integers(seed, i, modulus) ==
    ((IntFromBytesMod(seed, 65521) + i) * 7919 + 104729) % modulus

_lwe_noise(seed, modulus, pos) ==
    IntFromBytesMod(Sha3_512_bytes(CoordBytes(pos[1], pos[2], pos[3]) \o seed), modulus)

\* _generate_maze: the grid
_generate_maze(seed, size, modulus) ==
    [pos \in Cells(size) |->
        BitXor(Pcg64Integers(seed, CellIndex(size, pos), modulus), _lwe_noise(seed, modulus, pos)) % 64]

Max(a, b) == IF a >= b THEN a ELSE b

\* An exit count without the floor of 2.
exit_count_noFloor(size) == size \div ExitDivisor

exit_count(size) == Max(2, size \div ExitDivisor)

\* _set_exits: random.SystemRandom(self.seed) ignores its argument and draws from
\* the operating system, so every list of exit_count draws is possible.
_set_exits(size) ==
    [1..exit_count(size) -> {0, size - 1} \X Coords(size) \X Coords(size)]

\* QuantumMaze.__init__: the objects it can produce, or the error it raises.
\* _validate_size and _validate_security_level are not called.
QuantumMaze_init(cfg) ==
    LET processed == _process_seed(cfg.seed)
        lwe_params == _get_lwe_params(cfg.security_level)
    IN  IF processed.kind = "error" THEN {processed}
        ELSE IF lwe_params.kind = "error" THEN {lwe_params}
        ELSE LET generated == _generate_maze(processed.bytes, cfg.maze_size, lwe_params.modulus)
             IN  {[kind |-> "maze", size |-> cfg.maze_size, security_level |-> cfg.security_level,
                   seed |-> processed.bytes, grid |-> generated, start |-> <<0, 0, 0>>, ends |-> e]
                    : e \in _set_exits(cfg.maze_size)}

\* grid.tobytes()
RECURSIVE GridBytesFrom(_, _, _)
GridBytesFrom(grid, size, i) ==
    IF i >= size * size * size THEN <<>>
    ELSE CellBytes(grid[<<i \div (size * size), (i \div size) % size, i % size>>])
         \o GridBytesFrom(grid, size, i + 1)

serialize(m) ==
    ToBytes4(m.size) \o m.seed \o Utf8(m.security_level) \o GridBytesFrom(m.grid, m.size, 0)

LabelEnd == 74
SeedEnd == 68
SizeEnd == 4
CellWidth == 8

\* QuantumMaze.deserialize: the objects it can produce, or the error it raises.
\* np.frombuffer raises ValueError for a buffer that is no whole number of
\* cells, reshape for a number of cells other than size^3. The constructor is
\* then run on (size, seed, security_level) and its grid replaced.
deserialize(data) ==
    LET size_read == FromBytes4(Slice(data, 0, SizeEnd))
        seed_read == Slice(data, SizeEnd, SeedEnd)
        level_read == Utf8Decode(StripNul(Slice(data, SeedEnd, LabelEnd)))
        buf == Slice(data, LabelEnd, Len(data))
    IN  IF Len(buf) % CellWidth # 0 THEN {Err("ValueError")}
        ELSE IF Len(buf) \div CellWidth # size_read * size_read * size_read THEN {Err("ValueError")}
        ELSE LET cells == [pos \in Cells(size_read) |->
                            CellFromBytes(Slice(buf, CellWidth * CellIndex(size_read, pos),
                                                CellWidth * CellIndex(size_read, pos) + CellWidth))]
             IN  {IF m.kind = "maze" THEN [m EXCEPT !.grid = cells] ELSE m :
                    m \in QuantumMaze_init([maze_size |-> size_read, seed |-> seed_read,
                                            security_level |-> level_read])}

(***************************************************************************)
(* Constructing, regenerating and restoring a maze                         *)
(***************************************************************************)
MaxSizeInput == 2      \* largest maze_size a configuration asks for

\* config.seed: one of 31 bytes, and 64 zero bytes
RawSeeds == {[i \in 1..31 |-> 7], [i \in 1..64 |-> 0]}

Configs ==
    [maze_size : 1..MaxSizeInput, security_level : {"low", "medium", "high", "ultra"},
     seed : RawSeeds]

MazeIdle ==
    /\ config = None
    /\ maze = None
    /\ regen = None
    /\ restored = None

\* maze = QuantumMaze(config)
Construct ==
    /\ maze = None
    /\ \E cfg \in Configs :
         /\ config' = cfg
         /\ maze' \in QuantumMaze_init(cfg)
    /\ UNCHANGED <<regen, restored, cipherVars, navVars, probeVars>>

\* QuantumMaze(config) once more, compared with the first
Regenerate ==
    /\ maze.kind = "maze" /\ regen = None /\ restored = None
    /\ \E m2 \in QuantumMaze_init(config) :
         regen' = [kind |-> "compared", same_grid |-> (m2.grid = maze.grid),
                   same_ends |-> (m2.ends = maze.ends)]
    /\ UNCHANGED <<config, maze, restored, cipherVars, navVars, probeVars>>

\* QuantumMaze.deserialize(maze.serialize())
Deserialize ==
    /\ maze.kind = "maze" /\ regen = None /\ restored = None
    /\ restored' \in deserialize(serialize(maze))
    /\ UNCHANGED <<config, maze, regen, cipherVars, navVars, probeVars>>

MazeNext == Construct \/ Regenerate \/ Deserialize

(***************************************************************************)
(* QuantumNavigator                                                        *)
(***************************************************************************)
\* The keys of DIRECTION_VECTORS, in the order of the dict
Directions == <<"N", "S", "E", "W", "U", "D">>

DirectionSet == {Directions[i] : i \in 1..Len(Directions)}

DIRECTION_VECTORS(direction) ==
    CASE direction = "N" -> <<-1, 0, 0>>
      [] direction = "S" -> <<1, 0, 0>>
      [] direction = "E" -> <<0, 1, 0>>
      [] direction = "W" -> <<0, -1, 0>>
      [] direction = "U" -> <<0, 0, 1>>
      [] direction = "D" -> <<0, 0, -1>>

\* None, where a position is expected
NoPos == <<>>

\* A boundary check that forgets the upper bound.
_calculate_position_noUpper(size, pos, direction) ==
    IF direction \notin DirectionSet THEN NoPos
    ELSE LET v == DIRECTION_VECTORS(direction)
             new_pos == <<pos[1] + v[1], pos[2] + v[2], pos[3] + v[3]>>
         IN  IF \A k \in 1..3 : 0 <= new_pos[k] THEN new_pos ELSE NoPos

_calculate_position(size, pos, direction) ==
    IF direction \notin DirectionSet THEN NoPos
    ELSE LET v == DIRECTION_VECTORS(direction)
             new_pos == <<pos[1] + v[1], pos[2] + v[2], pos[3] + v[3]>>
         IN  IF \A k \in 1..3 : 0 <= new_pos[k] /\ new_pos[k] < size THEN new_pos ELSE NoPos

Abs(n) == IF n < 0 THEN -n ELSE n

Manhattan(p, q) == Abs(p[1] - q[1]) + Abs(p[2] - q[2]) + Abs(p[3] - q[3])

\* min(... for e in self.maze.ends)
_heuristic(m, pos) ==
    LET dists == {Manhattan(pos, m.ends[i]) : i \in 1..Len(m.ends)}
    IN  CHOOSE d \in dists : \A d2 \in dists : d <= d2

\* The directions whose bit is set in the cell, bit i for the i-th key of
\* DIRECTION_VECTORS (from 0), in the order of the keys
RECURSIVE MovesFrom(_, _)
MovesFrom(cell_value, i) ==
    IF i > Len(Directions) THEN <<>>
    ELSE (IF (cell_value \div Power(2, i - 1)) % 2 = 1 THEN <<Directions[i]>> ELSE <<>>)
         \o MovesFrom(cell_value, i + 1)

_get_valid_moves(m, pos) ==
    IF \E k \in 1..3 : pos[k] < 0 \/ pos[k] >= m.size THEN <<>>
    ELSE MovesFrom(m.grid[pos], 1)

\* ''.join(path).encode()
RECURSIVE JoinBytes(_)
JoinBytes(path) == IF path = <<>> THEN <<>> ELSE Utf8(path[1]) \o JoinBytes(Tail(path))

\* _lattice_signature_verify
_lattice_signature_verify(level, data) ==
    IntFromBytesMod(data, _get_lwe_params(level).modulus)
        < Power(2, _get_lwe_params(level).dimension)

\* QuantumMaze.validate_path
validate_path(level, path) ==
    IF path = <<>> THEN FALSE
    ELSE _lattice_signature_verify(level, Sha3_512_bytes(JoinBytes(path)))

\* len(set(path))
UniqueMoves(path) == Cardinality({path[i] : i \in 1..Len(path)})

\* _check_path_entropy as first defined (navigator.py 105-113); the definition
\* at 125-128 replaces it when the class body is executed.
_check_path_entropy_first(path) ==
    IF Len(path) < 8 THEN FALSE
    ELSE /\ 2 * UniqueMoves(path) >= Len(path)
         /\ Cardinality({i \in 2..Len(path) : path[i] = path[i - 1]}) <= Len(path) \div 4

\* _check_path_entropy, the definition in force: unique_moves >= len(path) * 0.5
_check_path_entropy(path) == 2 * UniqueMoves(path) >= Len(path)

\* sha3_512(x).digest() as a term: two digests are equal iff their inputs are
Sha3_512_of(x) == [kind |-> "sha3_512", of |-> x]

_generate_commitment(path, entropy) == Sha3_512_of(JoinBytes(path) \o entropy)

_get_quantum_anchor(entropy) == Sha3_512_of(entropy)

\* A commitment check that always passes.
_verify_quantum_commitment_skipped(path, entropy) == TRUE

\* hmac.compare_digest(commitment, anchor)
_verify_quantum_commitment(path, entropy) ==
    _generate_commitment(path, entropy) = _get_quantum_anchor(entropy)

\* all([...]) of the four checks; in_time is what _check_time_constraint finds.
\* The list is built in full before all() reads it, so the order of the four
\* does not matter to the result.
_validate_full_path(level, path, in_time, entropy) ==
    /\ in_time
    /\ _verify_quantum_commitment(path, entropy)
    /\ _check_path_entropy(path)
    /\ validate_path(level, path)

EntropyRandomLen == 32
EntropyGridLen == 32

\* os.urandom(32) + grid.tobytes()[:32] + timing (6 bytes); r stands for the
\* random bytes
_get_entropy(m, r) ==
    [i \in 1..EntropyRandomLen |-> r]
        \o Slice(GridBytesFrom(m.grid, m.size, 0), 0, EntropyGridLen)
        \o <<48, 48, 48, 48, 48, 49>>

\* Python's order on str, for the one-character direction symbols: by code point
TokenLess(a, b) == Utf8(a)[1] < Utf8(b)[1]

\* Python's order on lists of str
RECURSIVE PathLess(_, _)
PathLess(p, q) ==
    IF q = <<>> THEN FALSE
    ELSE IF p = <<>> THEN TRUE
    ELSE IF p[1] = q[1] THEN PathLess(Tail(p), Tail(q))
    ELSE TokenLess(p[1], q[1])

\* Python's order on tuples of three ints
PosLess(p, q) ==
    \/ p[1] < q[1]
    \/ p[1] = q[1] /\ p[2] < q[2]
    \/ p[1] = q[1] /\ p[2] = q[2] /\ p[3] < q[3]

\* The order of the heap's entries (priority, pos, path, start_time); start_time
\* is the same in every entry of one search.
EntryLess(a, b) ==
    \/ a[1] < b[1]
    \/ a[1] = b[1] /\ PosLess(a[2], b[2])
    \/ a[1] = b[1] /\ a[2] = b[2] /\ PathLess(a[3], b[3])

\* heappop: the least entry
HeapMin(h) == CHOOSE e \in h : \A f \in h : f = e \/ EntryLess(e, f)

\* A heappop that leaves the entry in the heap.
HeapRest_keeps(h) == h

\* heappop: the heap it leaves
HeapRest(h) == h \ {HeapMin(h)}

\* An exit test that never finds an exit.
IsExit_never(m, pos) == FALSE

\* pos in self.maze.ends
IsExit(m, pos) == \E i \in 1..Len(m.ends) : m.ends[i] = pos

\* The entries one expansion pushes
Pushes(m, seen, pos, path) ==
    LET moves == _get_valid_moves(m, pos)
    IN  {<<Len(path) + 1 + _heuristic(m, _calculate_position(m.size, pos, moves[i])),
           _calculate_position(m.size, pos, moves[i]),
           Append(path, moves[i])>> :
            i \in {j \in 1..Len(moves) :
                     /\ _calculate_position(m.size, pos, moves[j]) # NoPos
                     /\ _calculate_position(m.size, pos, moves[j]) \notin seen}}

\* The same entries in the order of the heappush calls
RECURSIVE PushSeqFrom(_, _, _, _, _)
PushSeqFrom(m, seen, pos, path, i) ==
    LET moves == _get_valid_moves(m, pos)
    IN  IF i > Len(moves) THEN <<>>
        ELSE LET new_pos == _calculate_position(m.size, pos, moves[i])
             IN  (IF new_pos # NoPos /\ new_pos \notin seen
                  THEN <<<<Len(path) + 1 + _heuristic(m, new_pos), new_pos, Append(path, moves[i])>>>>
                  ELSE <<>>)
                 \o PushSeqFrom(m, seen, pos, path, i + 1)

NoPath == [kind |-> "None"]

NavIdle ==
    /\ nav_maze = None
    /\ heap = {}
    /\ visited = {}
    /\ pc = "idle"
    /\ result = None
    /\ cand = None
    /\ entropy_cache = None
    /\ pushed = <<>>
    /\ turns = 0

MaxNavSize == 3

\* The mazes a navigator is given: constructed ones, with a seed of 32 zero bytes
NavSeeds == {[i \in 1..32 |-> 0]}

NavMazes ==
    {m \in UNION {QuantumMaze_init(cfg) :
                    cfg \in [maze_size : MinSize..MaxNavSize, security_level : DOMAIN SecurityLevels,
                             seed : NavSeeds]} : m.kind = "maze"}

NavInit ==
    /\ nav_maze \in NavMazes
    /\ heap = {}
    /\ visited = {}
    /\ pc = "idle"
    /\ result = None
    /\ cand = None
    /\ entropy_cache = None
    /\ pushed = <<>>
    /\ turns = 0

\* find_secure_path, up to the loop
FindSecurePath ==
    /\ nav_maze # None
    /\ pc = "idle"
    /\ heap' = {<<0, nav_maze.start, <<>>>>}
    /\ visited' = {}
    /\ pc' = "search"
    /\ pushed' = <<<<0, nav_maze.start, <<>>>>>>
    /\ UNCHANGED <<nav_maze, result, cand, entropy_cache>>

\* One turn of the loop on an entry at an exit: the path is validated and
\* returned, or the entry dropped.
PopExit ==
    /\ pc = "search" /\ heap # {}
    /\ LET e == HeapMin(heap)
       IN  /\ IsExit(nav_maze, e[2])
           /\ \E in_time \in BOOLEAN, r \in {0, 255} :
                LET entropy == IF entropy_cache = None THEN _get_entropy(nav_maze, r)
                               ELSE entropy_cache
                    valid == _validate_full_path(nav_maze.security_level, e[3], in_time, entropy)
                IN  /\ entropy_cache' = entropy
                    /\ cand' = [kind |-> "candidate", pos |-> e[2], path |-> e[3],
                                valid |-> valid]
                    /\ IF valid
                       THEN /\ result' = [kind |-> "path", path |-> e[3]]
                            /\ pc' = "done"
                       ELSE /\ result' = result
                            /\ pc' = pc
                    /\ heap' = HeapRest(heap)
    /\ UNCHANGED <<nav_maze, visited, pushed>>

\* One turn of the loop on an entry whose position was expanded before
PopVisited ==
    /\ pc = "search" /\ heap # {}
    /\ LET e == HeapMin(heap)
       IN  /\ ~IsExit(nav_maze, e[2])
           /\ e[2] \in visited
           /\ heap' = HeapRest(heap)
    /\ UNCHANGED <<nav_maze, visited, pc, result, cand, entropy_cache, pushed>>

\* One turn of the loop that expands the entry's position
Expand ==
    /\ pc = "search" /\ heap # {}
    /\ LET e == HeapMin(heap)
       IN  /\ ~IsExit(nav_maze, e[2])
           /\ e[2] \notin visited
           /\ visited' = visited \cup {e[2]}
           /\ heap' = HeapRest(heap) \cup Pushes(nav_maze, visited \cup {e[2]}, e[2], e[3])
           /\ pushed' = pushed \o PushSeqFrom(nav_maze, visited \cup {e[2]}, e[2], e[3], 1)
    /\ UNCHANGED <<nav_maze, pc, result, cand, entropy_cache>>

\* The heap is empty: return None
ReturnNone ==
    /\ pc = "search" /\ heap = {}
    /\ pc' = "done"
    /\ result' = NoPath
    /\ UNCHANGED <<nav_maze, heap, visited, cand, entropy_cache, pushed>>

\* More steps than a search can take: the entry, the return, and one turn for
\* each entry pushed, which are the start and at most six for each position.
TurnLimit(m) == 6 * m.size * m.size * m.size + 4

\* find_secure_path has been called or can be, and has not returned
Running == nav_maze # None /\ pc # "done" /\ turns < TurnLimit(nav_maze)

\* Every step of find_secure_path is counted.
NextTurn == Running /\ turns' = turns + 1

NavNext ==
    \/ FindSecurePath /\ NextTurn /\ UNCHANGED <<cipherVars, mazeVars, probeVars>>
    \/ PopExit /\ NextTurn /\ UNCHANGED <<cipherVars, mazeVars, probeVars>>
    \/ PopVisited /\ NextTurn /\ UNCHANGED <<cipherVars, mazeVars, probeVars>>
    \/ Expand /\ NextTurn /\ UNCHANGED <<cipherVars, mazeVars, probeVars>>
    \/ ReturnNone /\ NextTurn /\ UNCHANGED <<cipherVars, mazeVars, probeVars>>

(***************************************************************************)
(* The path checks as functions of a path                                  *)
(***************************************************************************)
MaxPathLen == 2

\* The six direction symbols and three other tokens
Tokens == DirectionSet \cup {"X", "NS", ""}

RECURSIVE PathsUpTo(_)
PathsUpTo(n) ==
    IF n = 0 THEN {<<>>}
    ELSE PathsUpTo(n - 1) \cup {Append(p, t) : p \in {q \in PathsUpTo(n - 1) : Len(q) = n - 1}, t \in Tokens}

ProbeIdle ==
    /\ probe_path = <<>>
    /\ probe_level = "low"
    /\ probe_out = None

ProbeInit ==
    /\ probe_path \in PathsUpTo(MaxPathLen)
    /\ probe_level \in DOMAIN SecurityLevels
    /\ probe_out = None

\* maze.validate_path(path)
ValidatePath ==
    /\ probe_out' = [kind |-> "validate_path", ok |-> validate_path(probe_level, probe_path)]
    /\ UNCHANGED <<probe_path, probe_level>>

\* navigator._check_path_entropy(path)
CheckPathEntropy ==
    /\ probe_out' = [kind |-> "_check_path_entropy", ok |-> _check_path_entropy(probe_path)]
    /\ UNCHANGED <<probe_path, probe_level>>

\* navigator._validate_full_path(path, start_time), the entropy being any
\* 70 bytes
ValidateFullPath ==
    /\ \E in_time \in BOOLEAN :
         probe_out' = [kind |-> "_validate_full_path",
                       ok |-> _validate_full_path(probe_level, probe_path, in_time,
                                                  [i \in 1..70 |-> 1])]
    /\ UNCHANGED <<probe_path, probe_level>>

ProbeNext ==
    \/ ValidatePath /\ UNCHANGED <<cipherVars, mazeVars, navVars>>
    \/ CheckPathEntropy /\ UNCHANGED <<cipherVars, mazeVars, navVars>>
    \/ ValidateFullPath /\ UNCHANGED <<cipherVars, mazeVars, navVars>>

(***************************************************************************)
(* PostQuantumCipher                                                       *)
(***************************************************************************)
\* KBKDFHMAC(..., length=96, ...).derive(entropy): the root of the key chain.
derive_initial_key == [chain |-> 0, len |-> DerivedKeyLen]

\* self.nav.maze.serialize()[:64]: the maze of a cipher never changes.
auth_data == [kind |-> "maze_header"]

\* sha3_512(key).digest()[:48]
KeyFingerprint(key) == [kind |-> "fingerprint", of |-> Sha3_512(key)]

\* A history that keeps four keys.
DequeAppend_keeps4(q, x) ==
    IF Len(q) >= HistoryMaxLen + 1 THEN Append(Tail(q), x) ELSE Append(q, x)

\* A history that keeps two keys.
DequeAppend_keeps2(q, x) ==
    IF Len(q) >= HistoryMaxLen - 1 THEN Append(Tail(q), x) ELSE Append(q, x)

\* A full history that evicts its newest key instead of its oldest.
DequeAppend_dropsNewest(q, x) ==
    IF Len(q) >= HistoryMaxLen THEN Append(SubSeq(q, 1, Len(q) - 1), x) ELSE Append(q, x)

\* deque(maxlen=3).append(x)
DequeAppend(q, x) ==
    IF Len(q) >= HistoryMaxLen THEN Append(Tail(q), x) ELSE Append(q, x)

\* The key state as one value.
CipherState == [key |-> current_key, prev |-> previous_keys, ctr |-> key_rotation_counter]

rotate_keys(S) ==
    [key |-> Sha3_512(S.key), prev |-> DequeAppend(S.prev, S.key), ctr |-> S.ctr + 1]

\* An encrypt that rotates only once the counter is above the threshold.
encrypt_strictThreshold(S, plaintext, nonce) ==
    LET S1 == IF S.ctr > RotationThreshold THEN rotate_keys(S) ELSE S
    IN  [state |-> S1,
         ret |-> <<Seg(NonceLen, [kind |-> "nonce", n |-> nonce]),
                   ChaChaEncrypt(S1.key, [kind |-> "nonce", n |-> nonce], plaintext, auth_data),
                   Seg(FingerprintLen, KeyFingerprint(S1.key))>>]

\* encrypt: the state it leaves and the bytes it returns.
encrypt(S, plaintext, nonce) ==
    LET S1 == IF S.ctr >= RotationThreshold THEN rotate_keys(S) ELSE S
    IN  [state |-> S1,
         ret |-> <<Seg(NonceLen, [kind |-> "nonce", n |-> nonce]),
                   ChaChaEncrypt(S1.key, [kind |-> "nonce", n |-> nonce], plaintext, auth_data),
                   Seg(FingerprintLen, KeyFingerprint(S1.key))>>]

\* A decrypt that tries only the retained keys.
CandidateKeys_noCurrent(S) == S.prev

\* The keys decrypt tries, in the order it tries them.
CandidateKeys(S) == <<S.key>> \o S.prev

\* decrypt: what it returns or raises. It changes no state.
decrypt(S, ciphertext) ==
    IF BytesLen(ciphertext) < MinCiphertextLen THEN InvalidTagMsg("Invalid ciphertext length")
    ELSE LET nonce == Prefix(ciphertext, NonceLen)
             key_fp == Suffix(ciphertext, FingerprintLen)
             data == Between(ciphertext, NonceLen, FingerprintLen)
             keys == CandidateKeys(S)
             hits == {i \in 1..Len(keys) : KeyFingerprint(keys[i]) = key_fp}
         IN  IF hits = {} THEN InvalidTagMsg("No valid key found for decryption")
             ELSE LET i == CHOOSE j \in hits : \A k \in hits : j <= k
                  IN  ChaChaDecrypt(keys[i], nonce, data, auth_data)

NoCt == [kind |-> "none"]

CipherInit ==
    /\ key_rotation_counter = 0
    /\ current_key = derive_initial_key
    /\ previous_keys = <<>>
    /\ held = NoCt
    /\ last = [op |-> "init"]
    /\ encRun = 0

\* The caller follows at most MaxRotations rotations, and at most MaxHeldAge of
\* them while it holds a ciphertext.
MayRotate(h) ==
    /\ key_rotation_counter < MaxRotations
    /\ h.kind = "ct" => key_rotation_counter - h.rotAt < MaxHeldAge

RotateKeys ==
    /\ MayRotate(held)
    /\ LET S1 == rotate_keys(CipherState)
       IN  /\ current_key' = S1.key
           /\ previous_keys' = S1.prev
           /\ key_rotation_counter' = S1.ctr
    /\ last' = [op |-> "rotate_keys"]
    /\ encRun' = NoRun
    /\ UNCHANGED <<held, mazeVars, navVars, probeVars>>

\* encrypt(p); the caller keeps the new ciphertext or the one it already holds.
Encrypt ==
    \E p \in Plaintexts, n \in Nonces, keep \in BOOLEAN :
       LET e == encrypt(CipherState, p, n)
           new == [kind |-> "ct", c |-> e.ret, p |-> p, rotAt |-> e.state.ctr]
           h == IF keep /\ held.kind = "ct" THEN held ELSE new
       IN  /\ encRun = NoRun \/ encRun < MaxEncRun
           /\ e.state.ctr # key_rotation_counter => MayRotate(IF keep THEN held ELSE NoCt)
           /\ current_key' = e.state.key
           /\ previous_keys' = e.state.prev
           /\ key_rotation_counter' = e.state.ctr
           /\ held' = h
           /\ last' = [op |-> "encrypt", kept |-> (h = new)]
           /\ encRun' = IF encRun = NoRun THEN NoRun ELSE encRun + 1
           /\ UNCHANGED <<mazeVars, navVars, probeVars>>

\* decrypt(c) of the ciphertext the caller holds.
Decrypt ==
    /\ held.kind = "ct"
    /\ last' = [op |-> "decrypt", res |-> decrypt(CipherState, held.c)]
    /\ UNCHANGED <<current_key, previous_keys, key_rotation_counter, held, encRun>>
    /\ UNCHANGED <<mazeVars, navVars, probeVars>>

\* Ways a ciphertext is altered before it is presented to decrypt
Tamperings == {"truncated", "nonce", "body", "fingerprint"}

Tamper(c, how) ==
    CASE how = "truncated" -> <<c[1]>>
      [] how = "nonce" -> <<Seg(NonceLen, [kind |-> "nonce", n |-> 0]), c[2], c[3]>>
      [] how = "body" -> <<c[1], Seg(c[2].len, Garbage), c[3]>>
      [] how = "fingerprint" -> <<c[1], c[2], Seg(FingerprintLen, Garbage)>>

\* decrypt(c') of an altered copy of the ciphertext the caller holds.
DecryptTampered ==
    /\ held.kind = "ct"
    /\ \E how \in Tamperings :
         last' = [op |-> "decrypt_tampered", how |-> how,
                  res |-> decrypt(CipherState, Tamper(held.c, how))]
    /\ UNCHANGED <<current_key, previous_keys, key_rotation_counter, held, encRun>>
    /\ UNCHANGED <<mazeVars, navVars, probeVars>>

Init == CipherInit /\ MazeIdle /\ NavIdle /\ ProbeIdle

Next == RotateKeys \/ Encrypt \/ Decrypt \/ DecryptTampered

Spec == Init /\ [][Next]_vars

\* The maze alone, beside a cipher that is left as constructed.
MazeInit == MazeIdle /\ CipherInit /\ NavIdle /\ ProbeIdle

SpecMaze == MazeInit /\ [][MazeNext]_vars

\* One search of a navigator over a constructed maze.
NavSpecInit == NavInit /\ CipherInit /\ MazeIdle /\ ProbeIdle

SpecNav == NavSpecInit /\ [][NavNext]_vars

\* QuantumNavigator(maze, config)
NewNavigator ==
    /\ nav_maze = None
    /\ nav_maze' \in NavMazes
    /\ UNCHANGED <<heap, visited, pc, result, cand, entropy_cache, pushed, turns>>
    /\ UNCHANGED <<cipherVars, mazeVars, probeVars>>

NavFairNext == NewNavigator \/ NavNext

\* A navigator is made and searches; the search always takes its next step. A
\* step is always possible while it runs: the call itself, the return when the
\* heap is empty, or else a pop of an entry that is at an exit, visited, or
\* neither.
SpecNavFair == Init /\ [][NavFairNext]_vars /\ WF_turns(NextTurn)

\* The path checks applied to one path.
PathSpecInit == ProbeInit /\ CipherInit /\ MazeIdle /\ NavIdle

SpecPath == PathSpecInit /\ [][ProbeNext]_vars

(***************************************************************************)
(* Claims about PostQuantumCipher, checked under Spec                      *)
(***************************************************************************)
HeldAge == key_rotation_counter - held.rotAt

C2_FourRotationsEvict ==
    (held.kind = "ct" /\ HeldAge = 4) =>
        /\ decrypt(CipherState, held.c).tag = "InvalidTag"
        /\ last.op = "decrypt" => last.res.tag = "InvalidTag"

\* C2 witness: decrypt was called on a ciphertext four rotations old and failed.
C2_Witness ==
    /\ held.kind = "ct" /\ HeldAge = 4
    /\ last.op = "decrypt" /\ last.res.tag = "InvalidTag"

C4_ThousandEncryptsRotate ==
    (encRun # NoRun /\ encRun > RotationThreshold) =>
        /\ key_rotation_counter >= 1
        /\ current_key # derive_initial_key

(***************************************************************************)
(* Claims about QuantumMaze, checked under SpecMaze                        *)
(***************************************************************************)
\* C5 (as claimed): deserialize(serialize(m)) of a constructed maze m, of any
\* size and security level, is a maze whose size, seed, security level and
\* grid are those of m.
C5_SerializeRoundTrip ==
    restored.kind # "none" =>
        /\ restored.kind = "maze"
        /\ restored.size = maze.size
        /\ restored.seed = maze.seed
        /\ restored.security_level = maze.security_level
        /\ restored.grid = maze.grid

\* C6 (as claimed): a second construction from the same (seed, size,
\* security_level) has the same grid and the same exits as the first.
C6_RegenerateIdentical ==
    regen.kind = "compared" => (regen.same_grid /\ regen.same_ends)

\* C7 (as claimed): construction from a configuration whose size is outside
\* [min_size, max_size], whose security level is none of low, medium, high, or
\* whose seed has fewer than 32 bytes raises an error and yields no maze.
C7_InvalidConfigRejected ==
    (/\ maze.kind # "none"
     /\ \/ config.maze_size < MinSize
        \/ config.maze_size > MaxSize
        \/ config.security_level \notin DOMAIN SecurityLevels
        \/ Len(config.seed) < MinSeedLen)
    => maze.kind = "error"

(***************************************************************************)
(* Claims about QuantumNavigator                                           *)
(***************************************************************************)
\* The positions a path passes through from pos, the vectors added with no check
RECURSIVE Walk(_, _)
Walk(pos, path) ==
    IF path = <<>> THEN <<pos>>
    ELSE <<pos>> \o Walk(LET v == DIRECTION_VECTORS(path[1])
                         IN  <<pos[1] + v[1], pos[2] + v[2], pos[3] + v[3]>>, Tail(path))

InBounds(size, pos) == \A k \in 1..3 : 0 <= pos[k] /\ pos[k] < size

\* Replaying path from the start stays in the grid and ends at pos
Replays(m, path, pos) ==
    LET w == Walk(m.start, path)
    IN  /\ \A i \in 1..Len(w) : InBounds(m.size, w[i])
        /\ w[Len(w)] = pos

C9_ShortPathFailsEntropy ==
    (probe_out # None /\ probe_out.kind = "_check_path_entropy" /\ Len(probe_path) < 8)
        => probe_out.ok = FALSE

\* C10, as claimed: validate_path returns false for every path that contains a
\* token other than N, S, E, W, U, D.
C10_ForeignTokenRejected ==
    (/\ probe_out # None
     /\ probe_out.kind = "validate_path"
     /\ \E i \in 1..Len(probe_path) : probe_path[i] \notin DirectionSet)
        => probe_out.ok = FALSE

(***************************************************************************)
(* Further claims about PostQuantumCipher, checked under Spec              *)
(***************************************************************************)
\* C11 (as claimed): every failure of decrypt, whether the ciphertext is shorter
\* than 72 bytes, its fingerprint matches no key, or the AEAD rejects it, is one
\* and the same error value: same type and same message.
C11_OneOpaqueError ==
    (last.op \in {"decrypt", "decrypt_tampered"} /\ last.res.tag = "InvalidTag")
        => last.res = InvalidTag

\* C13: after n rotations in all (by rotate_keys calls or inside encrypt), the
\* counter is n, the history holds exactly the last min(n, 3) keys that were
\* current before a rotation, oldest first, and for n >= 1 the current key is
\* the hash of the newest key of the history.  n is the number of times the
\* derived key has been hashed to give the current key; the keys of the history
\* are consecutive in the hash chain, the oldest being the derived key itself
\* while n <= 3.
C13_HistoryIsLastThree ==
    LET n == current_key.chain
        k == IF n < 3 THEN n ELSE 3
    IN  /\ key_rotation_counter = n
        /\ n = 0 => current_key = derive_initial_key
        /\ Len(previous_keys) = k
        /\ n >= 1 => current_key = Sha3_512(previous_keys[k])
        /\ \A i \in 1..(k - 1) : previous_keys[i + 1] = Sha3_512(previous_keys[i])
        /\ (n >= 1 /\ n <= 3) => previous_keys[1] = derive_initial_key
        /\ \A i \in 1..k : previous_keys[i].chain = n - k + i - 1

\* rotate_keys has just run for at least the fifth time: the history is full
\* and has evicted keys.
C13_Witness ==
    /\ last.op = "rotate_keys"
    /\ key_rotation_counter >= 5
    /\ Len(previous_keys) = HistoryMaxLen

\* C14 (as claimed): in every reachable state the current key is 96 bytes long.
C14_KeyIs96Bytes == current_key.len = DerivedKeyLen

\* list(reversed(q))
RECURSIVE Reversed(_)
Reversed(q) == IF q = <<>> THEN <<>> ELSE Append(Reversed(Tail(q)), q[1])

\* C15 (as claimed): a decrypt call examines the current key first and then the
\* retained keys from the most recently retired to the oldest.
C15_NewestRetainedFirst ==
    last.op \in {"decrypt", "decrypt_tampered"} =>
        CandidateKeys(CipherState) = <<current_key>> \o Reversed(previous_keys)

\* The step is an encrypt call
EncryptStep == last'.op = "encrypt" /\ vars' # vars

\* C20: the rotation counter never decreases; an encrypt call made while the
\* counter is below 1000 leaves current key, history and counter as they are;
\* an encrypt call made once the counter has reached 1000 rotates exactly once
\* and encrypts under the new key.
C20_EncryptRotatesFromThreshold ==
    [][/\ key_rotation_counter' >= key_rotation_counter
       /\ EncryptStep =>
            IF key_rotation_counter < RotationThreshold
            THEN UNCHANGED <<current_key, previous_keys, key_rotation_counter>>
            ELSE /\ key_rotation_counter' = key_rotation_counter + 1
                 /\ current_key' = Sha3_512(current_key)
                 /\ previous_keys' = DequeAppend(previous_keys, current_key)
                 /\ last'.kept =>
                       Suffix(held'.c, FingerprintLen) = KeyFingerprint(Sha3_512(current_key))]_vars

\* encrypt was called with the counter at 1000 or more, rotated, and returned a
\* ciphertext under the key it rotated to.
C20_Witness ==
    /\ last.op = "encrypt" /\ last.kept
    /\ key_rotation_counter > RotationThreshold
    /\ held.rotAt = key_rotation_counter
    /\ Suffix(held.c, FingerprintLen) = KeyFingerprint(current_key)
    /\ encRun = NoRun

PushIndex(e) == CHOOSE i \in 1..Len(pushed) : pushed[i] = e

\* C16 (as claimed): of the frontier entries with the least priority, the one
\* popped next is the one that was pushed first.
C16_TiesFirstInFirstOut ==
    (pc = "search" /\ heap # {}) =>
        \A f \in heap :
            f[1] = HeapMin(heap)[1] => PushIndex(HeapMin(heap)) <= PushIndex(f)

\* C17: every search ends: for every navigator, find_secure_path returns a path
\* that passed _validate_full_path at an exit, or returns None once the heap is
\* empty.
C17_SearchTerminates ==
  /\ [](nav_maze # None => turns < TurnLimit(nav_maze))
  /\ (nav_maze # None) ~>
      (/\ pc = "done"
       /\ \/ result = NoPath /\ heap = {}
          \/ /\ result # None /\ result # NoPath
             /\ cand.valid /\ result.path = cand.path /\ IsExit(nav_maze, cand.pos))

\* A search that expanded positions and rejected a path at an exit has
\* returned None.
C17_Witness ==
    /\ pc = "done" /\ result = NoPath
    /\ heap = {}
    /\ visited # {}
    /\ cand # None

\* The entropy of the navigator: the cached one, or one it may draw
NavEntropy == IF entropy_cache = None THEN _get_entropy(nav_maze, 0) ELSE entropy_cache

InExitList(pos) == \E i \in 1..Len(nav_maze.ends) : nav_maze.ends[i] = pos

\* No position a path passes through before its last is an exit
StopsAtFirstExit(path) ==
    LET w == Walk(nav_maze.start, path)
    IN  \A i \in 1..(Len(w) - 1) : ~InExitList(w[i])

\* C19: find_secure_path never expands an exit: no visited position is an exit,
\* no path in the heap or handed to validation continues through an exit, a
\* rejected exit entry leaves nothing behind, and when the start is an exit
\* nothing is ever expanded or pushed and the search returns None.
C19_ExitsNeverExpanded ==
    /\ \A v \in visited : ~InExitList(v)
    /\ \A e \in heap : StopsAtFirstExit(e[3])
    /\ \A i \in 1..Len(pushed) : StopsAtFirstExit(pushed[i][3])
    /\ cand # None => (cand.pos \notin visited /\ StopsAtFirstExit(cand.path))
    /\ (nav_maze # None /\ InExitList(nav_maze.start)) =>
          /\ visited = {}
          /\ Len(pushed) <= 1
          /\ pc = "done" => result = NoPath

\* The search dropped a path it had followed to an exit and goes on with other
\* entries, the exit not marked visited.
C19_Witness ==
    /\ pc = "search" /\ heap # {}
    /\ cand # None /\ cand.path # <<>>
    /\ InExitList(cand.pos) /\ cand.pos \notin visited
    /\ visited # {}

====
